---- MODULE Spec2Model ----
(***************************************************************************)
(* Model of scripts/metrics/buildbot_monitoring.py: one process that       *)
(* mirrors the Buildbot REST API (workers, builders, builds, buildsets,    *)
(* buildrequests) into PostgreSQL tables over a single connection.         *)
(***************************************************************************)
EXTENDS Integers, Sequences, FiniteSets, TLC

\* ------------------------------------------------------------------ bounds
MaxId == 3          \* remote event ids are 1..MaxId
MaxRuns == 2        \* invocations of the script in one behaviour
MaxChanges == 2     \* changes of the remote service in one behaviour
\* step of rest_request_iterator (its default, scaled down from 1000)
Step == 2

KindSet == {"builds", "buildsets", "buildrequests"}
Ids == 1..MaxId
\* The master has one worker and one builder; both ids are 1, as the ids of
\* the two listings both count from 1.
SnapIdSeq == <<1>>
SnapIds == {SnapIdSeq[j] : j \in 1..Len(SnapIdSeq)}
Vals == {0, 1}

VARIABLES
    \* --- the remote Buildbot master
    remote,      \* [KindSet -> [ids -> {"absent","incomplete","complete"}]]
    workersApi,  \* [SnapIds -> Vals]: the attribute of each worker document
    buildersApi, \* [SnapIds -> Vals]: the attribute of each builder document
    changes,     \* number of remote changes so far
    \* --- the database (committed rows)
    buildbot_workers,   \* Seq of [timestamp, worker_id, data]
    buildbot_builders,  \* Seq of [builder_id, timestamp, name, data]
    tbl,                \* [KindSet -> Seq of [id, data]]: the three event tables
    \* --- the connection's open transaction (rows executed, not committed)
    txw,         \* pending rows of buildbot_workers
    txe,         \* pending rows of the event table of `stage`
    \* --- the process
    pc,          \* "idle","update","commit","start","request","execute","commit_page"
    stage,       \* "none","workers","builders","builds","buildsets","buildrequests"
    runs,        \* invocations started
    exit,        \* exit status of the last invocation: "none","0","1","killed"
    err,         \* what ended the last invocation abnormally
    clock,       \* datetime.datetime.now()
    step,        \* rest_request_iterator's step parameter
    start_id,    \* rest_request_iterator's start_id
    stop_id,     \* rest_request_iterator's stop_id
    results,     \* the page the generator yielded
    \* --- history of the current (or last) event stage run
    hkind,       \* the kind of that stage run, "none" before the first one
    cursor0,     \* max id committed when the stage run started
    tbl0,        \* the stage's table when the stage run started
    windows,     \* Seq of <<lo, hi>>: the ranges requested
    pages,       \* Seq of pages yielded
    commits,     \* Seq of sets of ids, one per committed page
    fin,         \* how the last event stage run ended
    prev,        \* [KindSet -> how the kind's previous stage run ended]
    replay,      \* [KindSet -> that run ended without error and remote[k] is
                 \*  unchanged since it started]
    curSame,     \* remote[stage] unchanged since the current stage run started
    \* --- history of the current (or last) invocation
    log          \* Seq of <<"start"|"end", stage>>: the calls main made and
                 \*  the calls that returned

vars == <<remote, workersApi, buildersApi, changes, buildbot_workers,
          buildbot_builders, tbl, txw, txe, pc, stage, runs, exit, err, clock,
          step, start_id, stop_id, results, cursor0, tbl0, windows, pages,
          commits, hkind, fin, prev, replay, curSame, log>>

remoteVars == <<remote, workersApi, buildersApi, changes>>
dbVars == <<buildbot_workers, buildbot_builders, tbl>>
iterVars == <<start_id, stop_id, results>>
histVars == <<hkind, cursor0, tbl0, windows, pages, commits>>

\* ------------------------------------------------------------ documents
\* A JSON document is a dict: a function from keys to values.
KeyOrder == <<"builderid", "complete", "id", "v", "workerid">>

\* json.dumps: the text of a dict, here its list of (key, value) pairs.
json_dumps(doc) ==
    LET keys == SelectSeq(KeyOrder, LAMBDA k : k \in DOMAIN doc)
    IN  [i \in 1..Len(keys) |-> <<keys[i], doc[keys[i]]>>]

\* What psycopg2 hands back for a stored jsonb value: the decoded dict.
jsonb_load(text) ==
    [k \in {text[i][1] : i \in 1..Len(text)} |->
        (CHOOSE p \in {text[i] : i \in 1..Len(text)} : p[1] = k)[2]]

WorkerDoc(i, v) == [workerid |-> i, v |-> v]
BuilderDoc(i, v) == [builderid |-> i, v |-> v]
EventDoc(i, c) == [id |-> i, complete |-> c]

None == [none |-> TRUE]

\* ------------------------------------------------------------ sequences
RECURSIVE SeqMax(_)
SeqMax(s) == IF s = <<>> THEN 0
             ELSE LET m == SeqMax(Tail(s)) IN IF Head(s) > m THEN Head(s) ELSE m

IdsOf(rows) == {rows[i].id : i \in 1..Len(rows)}
Count(rows, i) == Cardinality({j \in 1..Len(rows) : rows[j].id = i})
SetMax(S) == IF S = {} THEN 0 ELSE CHOOSE m \in S : \A x \in S : x <= m

\* The ids of S in increasing order.
RECURSIVE SortedSeq(_)
SortedSeq(S) ==
    IF S = {} THEN <<>>
    ELSE LET m == SetMax(S) IN Append(SortedSeq(S \ {m}), m)

\* ------------------------------------------------------- snapshot tables
\* SELECT data FROM buildbot_workers WHERE worker_id = %s
\* ORDER BY timestamp DESC; fetchone().  `rows` are the rows the statement
\* sees: the committed ones and those of the open transaction.  The rows of
\* one worker_id carry distinct timestamps (one now() per stage run).
get_worker_status(rows, worker_id) ==
    LET mine == {j \in 1..Len(rows) : rows[j].worker_id = worker_id}
    IN  IF mine = {} THEN None
        ELSE jsonb_load(rows[CHOOSE j \in mine : \A m \in mine :
                               rows[m].timestamp <= rows[j].timestamp].data)

\* SELECT data FROM buildbot_builders WHERE builder_id = %s
\* ORDER BY timestamp DESC; fetchone().
get_builder_status(rows, builder_id) ==
    LET mine == {j \in 1..Len(rows) : rows[j].builder_id = builder_id}
    IN  IF mine = {} THEN None
        ELSE jsonb_load(rows[CHOOSE j \in mine : \A m \in mine :
                               rows[m].timestamp <= rows[j].timestamp].data)

\* An insert that takes the time of its own execution.
set_worker_status_own_time(pending, timestamp, worker_id, data) ==
    Append(pending, [timestamp |-> timestamp + Len(pending),
                     worker_id |-> worker_id, data |-> data])

\* INSERT INTO buildbot_workers (timestamp, worker_id, data) values (...)
set_worker_status(pending, timestamp, worker_id, data) ==
    Append(pending, [timestamp |-> timestamp, worker_id |-> worker_id,
                     data |-> data])

\* response.json()["workers"] of GET workers: the whole listing.
workers_listing(api) ==
    LET ids == SortedSeq(DOMAIN api)
    IN  [j \in 1..Len(ids) |-> WorkerDoc(ids[j], api[ids[j]])]

\* response.json()["builders"] of GET builders: the whole listing.
builders_listing(api) ==
    LET ids == SortedSeq(DOMAIN api)
    IN  [j \in 1..Len(ids) |-> BuilderDoc(ids[j], api[ids[j]])]

\* The for loop of update_workers over the listing.
RECURSIVE update_workers_loop(_, _, _)
update_workers_loop(listing, pending, timestamp) ==
    IF listing = <<>> THEN pending
    ELSE LET worker == Head(listing)
             worker_id == worker.workerid
             data == json_dumps(worker)
             old_data == get_worker_status(buildbot_workers \o pending, worker_id)
         IN  update_workers_loop(
                 Tail(listing),
                 IF old_data = None \/ worker # old_data
                 THEN set_worker_status(pending, timestamp, worker_id, data)
                 ELSE pending,
                 timestamp)

\* update_builders with a loop that writes nothing.
update_builders_loop_idle(listing, pending, timestamp) == pending

\* The for loop of update_builders over the listing.
RECURSIVE update_builders_loop(_, _, _)
update_builders_loop(listing, pending, timestamp) ==
    IF listing = <<>> THEN pending
    ELSE LET builder == Head(listing)
             builder_id == builder.builderid
             data == json_dumps(builder)
             old_data == get_builder_status(buildbot_builders, builder_id)
         IN  update_builders_loop(
                 Tail(listing),
                 IF old_data = None \/ builder # old_data
                 THEN set_worker_status(pending, timestamp, builder_id, data)
                 ELSE pending,
                 timestamp)

\* --------------------------------------------------------- event tables
\* get_last_build with COUNT in place of MAX.
get_last_build_count(rows) == Len(rows)

\* SELECT MAX(build_id) FROM buildbot_builds; 0 for an empty table.
get_last_build(rows) == SeqMax([j \in 1..Len(rows) |-> rows[j].id])

\* SELECT MAX(buildset_id) from buildbot_buildsets; 0 for an empty table.
get_latest_buildset(rows) == SeqMax([j \in 1..Len(rows) |-> rows[j].id])

\* A sync that starts from 0 whatever the table holds.
get_latest_buildrequest_zero(rows) == 0

\* SELECT MAX(buildrequest_id) from buildbot_buildrequests; 0 if empty.
get_latest_buildrequest(rows) == SeqMax([j \in 1..Len(rows) |-> rows[j].id])

get_last(kind, rows) ==
    CASE kind = "builds" -> get_last_build(rows)
      [] kind = "buildsets" -> get_latest_buildset(rows)
      [] kind = "buildrequests" -> get_latest_buildrequest(rows)

\* The master's answer to ?<id>__gt=lo&<id>__le=hi: the records of the
\* range, sorted by id.
RECURSIVE rest_response(_, _, _)
rest_response(kind, lo, hi) ==
    IF hi <= lo THEN <<>>
    ELSE rest_response(kind, lo, hi - 1) \o
         (IF hi \in DOMAIN remote[kind] /\ remote[kind][hi] # "absent"
          THEN <<EventDoc(hi, remote[kind][hi] = "complete")>>
          ELSE <<>>)

\* stop_id one short of start_id + step.
next_stop_id_short(from, by) == from + by - 1

\* stop_id = start_id + step
next_stop_id(from, by) == from + by

\* start_id = stop_id - 1: the next window overlaps the one before it.
resume_start_id_back(from, to) == to - 1

\* The generator resumed without advancing its window.
resume_start_id_stay(from, to) == from

\* start_id = stop_id, when the generator is resumed after its yield
resume_start_id(from, to) == to

\* args_str without its `if record["complete"]`.
args_str_unfiltered(result_set) ==
    [j \in 1..Len(result_set) |->
        [id |-> result_set[j].id, data |-> json_dumps(result_set[j])]]

\* args_str that stops at the first record that is not complete.
args_str_prefix(result_set) ==
    LET n == IF \A j \in 1..Len(result_set) : result_set[j].complete
             THEN Len(result_set)
             ELSE (CHOOSE j \in 1..Len(result_set) :
                      /\ ~result_set[j].complete
                      /\ \A m \in 1..(j - 1) : result_set[m].complete) - 1
    IN  [j \in 1..n |->
            [id |-> result_set[j].id, data |-> json_dumps(result_set[j])]]

\* The generator expression of the three event syncs: one values tuple per
\* record of the page with record["complete"].
args_str(result_set) ==
    LET final == SelectSeq(result_set, LAMBDA r : r.complete)
    IN  [j \in 1..Len(final) |->
            [id |-> final[j].id, data |-> json_dumps(final[j])]]

\* No sync tests its batch: none has the break.
breaks_never(kind) == FALSE

\* `if len(args_str) == 0: break` of update_buildsets and
\* update_buildrequests; update_build_status has no such test.
breaks_on_empty(kind) == kind \in {"buildsets", "buildrequests"}

\* The INSERT on a table whose id column is no key.
sql_insert_no_key(rows, values) ==
    IF Len(values) = 0 THEN "SyntaxError" ELSE "ok"

\* cur.execute("INSERT INTO <table> (...) values " + args_str) on a table
\* whose id column is the PRIMARY KEY: a statement without a values tuple
\* is a syntax error, a repeated id a unique violation; either way the
\* statement inserts nothing.
sql_insert(rows, values) ==
    IF Len(values) = 0 THEN "SyntaxError"
    ELSE IF \E i \in 1..Len(values) :
               \/ values[i].id \in IdsOf(rows)
               \/ \E j \in 1..Len(values) : j # i /\ values[j].id = values[i].id
         THEN "UniqueViolation"
         ELSE "ok"

\* A commit after which only the rows of the transaction are stored.
conn_commit_lossy(rows, pending) == pending

\* conn.commit(): the rows of the open transaction become durable.
conn_commit(rows, pending) == rows \o pending

\* main with the calls of update_build_status and update_buildsets
\* exchanged.
next_stage_swapped(s) ==
    CASE s = "workers" -> "builders"
      [] s = "builders" -> "buildsets"
      [] s = "buildsets" -> "builds"
      [] s = "builds" -> "buildrequests"
      [] s = "buildrequests" -> "none"

\* The stage main runs after `s`, "none" after the last one.
next_stage(s) ==
    CASE s = "workers" -> "builders"
      [] s = "builders" -> "builds"
      [] s = "builds" -> "buildsets"
      [] s = "buildsets" -> "buildrequests"
      [] s = "buildrequests" -> "none"

\* The calls of main, in the order it makes them.
StageSeq == <<"workers", "builders", "builds", "buildsets", "buildrequests">>

\* The log of an invocation in which every call returned.
StageLog ==
    [j \in 1..(2 * Len(StageSeq)) |->
        IF j % 2 = 1 THEN <<"start", StageSeq[(j + 1) \div 2]>>
        ELSE <<"end", StageSeq[j \div 2]>>]

\* The log of an invocation that has just called stage s.
LogAt(s) ==
    SubSeq(StageLog, 1, 2 * (CHOOSE j \in 1..Len(StageSeq) : StageSeq[j] = s) - 1)

\* ------------------------------------------------------------ the state
NoFin == [kind |-> "none", status |-> "none", replayed |-> FALSE]
NoPrev == [status |-> "none", rows |-> <<>>, cursor0 |-> 0, ncommits |-> 0]

\* The state when the script is first invoked: the tables are empty.
InitLocal ==
    /\ buildbot_workers = <<>>
    /\ buildbot_builders = <<>>
    /\ tbl = [k \in KindSet |-> <<>>]
    /\ txw = <<>>
    /\ txe = <<>>
    /\ pc = "idle"
    /\ stage = "none"
    /\ runs = 0
    /\ exit = "none"
    /\ err = "none"
    /\ clock = 0
    /\ start_id = 0
    /\ stop_id = 0
    /\ results = <<>>
    /\ hkind = "none"
    /\ cursor0 = 0
    /\ tbl0 = <<>>
    /\ windows = <<>>
    /\ pages = <<>>
    /\ commits = <<>>
    /\ fin = NoFin
    /\ prev = [k \in KindSet |-> NoPrev]
    /\ replay = [k \in KindSet |-> FALSE]
    /\ curSame = FALSE
    /\ log = <<>>
    /\ changes = 0

InitProcess ==
    /\ InitLocal
    /\ workersApi = [i \in SnapIds |-> 0]
    /\ buildersApi = [i \in SnapIds |-> 0]

Init ==
    /\ InitProcess
    /\ step = Step
    /\ remote = [k \in KindSet |-> [i \in Ids |-> "absent"]]

\* ------------------------------------------------------ the remote master
\* The master's records of kind k are read by the requests of stage k only,
\* so a change of them at any other moment is the same change made right
\* before the next such request: the changes are taken there, before the
\* stage run starts or between two of its requests.
Observed(k) ==
    /\ stage = k
    /\ \/ pc = "start"
       \/ pc = "request" /\ windows # <<>>

\* A record appears on the master, complete or not.
RemoteCreate(k, i, c) ==
    /\ Observed(k)
    /\ changes < MaxChanges
    /\ remote[k][i] = "absent"
    /\ remote' = [remote EXCEPT ![k][i] = IF c THEN "complete" ELSE "incomplete"]
    /\ changes' = changes + 1
    /\ replay' = [replay EXCEPT ![k] = FALSE]
    /\ curSame' = FALSE
    /\ UNCHANGED <<workersApi, buildersApi, dbVars, txw, txe, pc, stage, runs,
                   exit, err, clock, step, iterVars, histVars, fin, prev, log>>

\* A record of the master reaches its final state.
RemoteComplete(k, i) ==
    /\ Observed(k)
    /\ changes < MaxChanges
    /\ remote[k][i] = "incomplete"
    /\ remote' = [remote EXCEPT ![k][i] = "complete"]
    /\ changes' = changes + 1
    /\ replay' = [replay EXCEPT ![k] = FALSE]
    /\ curSame' = FALSE
    /\ UNCHANGED <<workersApi, buildersApi, dbVars, txw, txe, pc, stage, runs,
                   exit, err, clock, step, iterVars, histVars, fin, prev, log>>

\* A worker's attributes change on the master (seen by the next listing).
RemoteWorkerChange(i) ==
    /\ stage = "workers" /\ pc = "update"
    /\ changes < MaxChanges
    /\ workersApi' = [workersApi EXCEPT ![i] = 1 - @]
    /\ changes' = changes + 1
    /\ UNCHANGED <<remote, buildersApi, dbVars, txw, txe, pc, stage, runs, exit,
                   err, clock, step, iterVars, histVars, fin, prev, replay,
                   curSame, log>>

\* A builder's attributes change on the master (seen by the next listing).
RemoteBuilderChange(i) ==
    /\ stage = "builders" /\ pc = "update"
    /\ changes < MaxChanges
    /\ buildersApi' = [buildersApi EXCEPT ![i] = 1 - @]
    /\ changes' = changes + 1
    /\ UNCHANGED <<remote, workersApi, dbVars, txw, txe, pc, stage, runs, exit,
                   err, clock, step, iterVars, histVars, fin, prev, replay,
                   curSame, log>>

\* ------------------------------------------------------------ the process
\* An error that is noted and does not end anything: the process goes on
\* where it was.
Exit_swallowed(status, error) ==
    /\ err' = error
    /\ UNCHANGED <<pc, stage, exit, txw, txe, start_id, stop_id, results>>

\* A process whose exit status is 0 however it ends.
Exit_zero(status, error) ==
    /\ pc' = "idle"
    /\ stage' = "none"
    /\ exit' = "0"
    /\ err' = error
    /\ txw' = <<>>
    /\ txe' = <<>>
    /\ start_id' = 0
    /\ stop_id' = 0
    /\ results' = <<>>

\* The process ends: its locals are gone and the connection is closed, which
\* rolls back the open transaction.
Exit(status, error) ==
    /\ pc' = "idle"
    /\ stage' = "none"
    /\ exit' = status
    /\ err' = error
    /\ txw' = <<>>
    /\ txe' = <<>>
    /\ start_id' = 0
    /\ stop_id' = 0
    /\ results' = <<>>

\* conn.commit() on the one connection: every table keeps its pending rows.
CommitAll ==
    /\ buildbot_workers' = conn_commit(buildbot_workers, txw)
    /\ buildbot_builders' = conn_commit(buildbot_builders, <<>>)
    /\ tbl' = [k \in KindSet |->
                 conn_commit(tbl[k], IF k = stage THEN txe ELSE <<>>)]
    /\ txw' = <<>>
    /\ txe' = <<>>

\* An event stage run ends: `status` is "ok", "failed" or "killed".
EndRun(k, status) ==
    /\ fin' = [kind |-> k, status |-> status, replayed |-> replay[k]]
    /\ replay' = [replay EXCEPT ![k] = (status = "ok") /\ curSame]
    /\ prev' = [prev EXCEPT ![k] = [status |-> status, rows |-> tbl[k],
                                    cursor0 |-> cursor0,
                                    ncommits |-> Len(commits)]]

\* main: connect_to_db(), create_tables(conn), then the first stage.
Main ==
    /\ pc = "idle"
    /\ runs < MaxRuns
    /\ runs' = runs + 1
    /\ pc' = "update"
    /\ stage' = "workers"
    /\ exit' = "none"
    /\ err' = "none"
    /\ hkind' = "none"
    /\ cursor0' = 0
    /\ tbl0' = <<>>
    /\ windows' = <<>>
    /\ pages' = <<>>
    /\ commits' = <<>>
    /\ fin' = NoFin
    /\ curSame' = FALSE
    /\ log' = <<<<"start", "workers">>>>
    /\ UNCHANGED <<remote, workersApi, buildersApi, changes, dbVars, txw, txe,
                   clock, step, iterVars, prev, replay>>

\* update_workers up to its commit: the request, now(), the loop.
update_workers ==
    /\ pc = "update" /\ stage = "workers"
    /\ clock' = clock + 1
    /\ txw' = update_workers_loop(workers_listing(workersApi), txw, clock')
    /\ pc' = "commit"
    /\ UNCHANGED <<remoteVars, dbVars, txe, stage, runs, exit, err, step,
                   iterVars, histVars, fin, prev, replay, curSame, log>>

\* update_builders up to its commit: the request, now(), the loop.
update_builders ==
    /\ pc = "update" /\ stage = "builders"
    /\ clock' = clock + 1
    /\ txw' = update_builders_loop(builders_listing(buildersApi), txw, clock')
    /\ pc' = "commit"
    /\ UNCHANGED <<remoteVars, dbVars, txe, stage, runs, exit, err, step,
                   iterVars, histVars, fin, prev, replay, curSame, log>>

\* requests.get or response.json() raises in a snapshot stage: nothing
\* catches it and the process ends.
SnapshotFetchError ==
    /\ pc = "update" /\ stage \in {"workers", "builders"}
    /\ Exit("1", "fetch")
    /\ UNCHANGED <<remoteVars, dbVars, runs, clock, step, histVars, fin, prev,
                   replay, curSame, log>>

\* conn.commit() at the end of update_workers and of update_builders.
SnapshotCommit ==
    /\ pc = "commit" /\ stage \in {"workers", "builders"}
    /\ CommitAll
    /\ stage' = next_stage(stage)
    /\ pc' = IF stage = "workers" THEN "update" ELSE "start"
    /\ log' = log \o <<<<"end", stage>>, <<"start", next_stage(stage)>>>>
    /\ UNCHANGED <<remoteVars, runs, exit, err, clock, step, iterVars, histVars,
                   fin, prev, replay, curSame>>

\* The head of an event sync: start_id from the table, the generator made.
EventStart ==
    /\ pc = "start" /\ stage \in KindSet
    /\ start_id' = get_last(stage, tbl[stage] \o txe)
    /\ stop_id' = 0
    /\ results' = <<>>
    /\ hkind' = stage
    /\ cursor0' = SetMax(IdsOf(tbl[stage]))
    /\ tbl0' = tbl[stage]
    /\ windows' = <<>>
    /\ pages' = <<>>
    /\ commits' = <<>>
    /\ fin' = NoFin
    /\ curSame' = TRUE
    /\ pc' = "request"
    /\ UNCHANGED <<remoteVars, dbVars, txw, txe, stage, runs, exit, err, clock,
                   step, prev, replay, log>>

\* The stage after an event stage that ended without error, or exit 0.
Leave(k) ==
    IF next_stage(k) = "none"
    THEN /\ Exit("0", "none")
         /\ log' = Append(log, <<"end", k>>)
    ELSE /\ log' = log \o <<<<"end", k>>, <<"start", next_stage(k)>>>>
         /\ stage' = next_stage(k)
         /\ pc' = "start"
         /\ start_id' = 0
         /\ stop_id' = 0
         /\ results' = <<>>
         /\ UNCHANGED <<txw, txe, exit, err>>

\* rest_request_iterator: one request that answers 200; an empty page ends
\* the generator (and the sync's for loop), another one is yielded.
RequestPage ==
    /\ pc = "request" /\ stage \in KindSet
    /\ LET stop == next_stop_id(start_id, step)
           page == rest_response(stage, start_id, stop)
       IN  /\ windows' = Append(windows, <<start_id, stop>>)
           /\ IF Len(page) = 0
              THEN /\ EndRun(stage, "ok")
                   /\ Leave(stage)
                   /\ UNCHANGED pages
              ELSE /\ stop_id' = stop
                   /\ results' = page
                   /\ pages' = Append(pages, page)
                   /\ pc' = "execute"
                   /\ UNCHANGED <<stage, exit, err, txw, txe, start_id, fin,
                                  prev, replay, log>>
    /\ UNCHANGED <<remoteVars, dbVars, runs, clock, step, hkind, cursor0, tbl0,
                   commits, curSame>>

\* rest_request_iterator: response.status_code != 200 raises.
RequestError ==
    /\ pc = "request" /\ stage \in KindSet
    /\ windows' = Append(windows, <<start_id, next_stop_id(start_id, step)>>)
    /\ EndRun(stage, "failed")
    /\ Exit("1", "fetch")
    /\ UNCHANGED <<remoteVars, dbVars, runs, clock, step, hkind, cursor0, tbl0,
                   pages, commits, curSame, log>>

\* The body of the for loop up to its commit: args_str, the break,
\* cur.execute.
Execute ==
    /\ pc = "execute" /\ stage \in KindSet
    /\ LET values == args_str(results)
           outcome == sql_insert(tbl[stage] \o txe, values)
       IN  IF breaks_on_empty(stage) /\ Len(values) = 0
           THEN /\ EndRun(stage, "ok")
                /\ Leave(stage)
           ELSE IF outcome = "ok"
           THEN /\ txe' = txe \o values
                /\ pc' = "commit_page"
                /\ UNCHANGED <<stage, exit, err, txw, iterVars, fin, prev,
                               replay, log>>
           ELSE /\ EndRun(stage, "failed")
                /\ Exit("1", outcome)
                /\ UNCHANGED log
    /\ UNCHANGED <<remoteVars, dbVars, runs, clock, step, histVars, curSame>>

\* conn.commit() at the end of the loop body; the generator is resumed.
CommitPage ==
    /\ pc = "commit_page" /\ stage \in KindSet
    /\ CommitAll
    /\ commits' = Append(commits, IdsOf(txe))
    /\ start_id' = resume_start_id(start_id, stop_id)
    /\ pc' = "request"
    /\ UNCHANGED <<remoteVars, stage, runs, exit, err, clock, step, stop_id,
                   results, hkind, cursor0, tbl0, windows, pages, fin, prev,
                   replay, curSame, log>>

\* The process is killed (or the machine stops) with rows executed and not
\* yet committed.  At the other points of a run the transaction holds no
\* row, and a kill there leaves the database as the errors taken at those
\* points (SnapshotFetchError, RequestError, a failing insert) leave it.
Crash ==
    /\ pc \in {"commit", "commit_page"}
    /\ Exit("killed", "crash")
    /\ IF pc = "commit_page"
       THEN EndRun(stage, "killed")
       ELSE UNCHANGED <<fin, prev, replay>>
    /\ UNCHANGED <<remoteVars, dbVars, runs, clock, step, histVars, curSame,
                   log>>

Next ==
    \/ \E k \in KindSet, i \in Ids, c \in BOOLEAN : RemoteCreate(k, i, c)
    \/ \E k \in KindSet, i \in Ids : RemoteComplete(k, i)
    \/ \E i \in SnapIds : RemoteWorkerChange(i)
    \/ \E i \in SnapIds : RemoteBuilderChange(i)
    \/ Main
    \/ update_workers
    \/ update_builders
    \/ SnapshotFetchError
    \/ SnapshotCommit
    \/ EventStart
    \/ RequestPage
    \/ RequestError
    \/ Execute
    \/ CommitPage
    \/ Crash

Spec == Init /\ [][Next]_vars

\* ----------------------------------------------- the insert on its own
\* The loop body of an event sync is about to run on the first page of a run
\* that started from an empty table: the generator has yielded the records
\* with the ids P of the window (0, step], and the table holds the rows of
\* the ids S, stored meanwhile by another invocation of the script.
InitInsert ==
    \E k \in KindSet, S \in SUBSET Ids, P \in (SUBSET (1..Step)) \ {{}} :
      \E f \in [P -> BOOLEAN] :
        LET ids == SortedSeq(S)
            pids == SortedSeq(P)
            table == [j \in 1..Len(ids) |->
                        [id |-> ids[j],
                         data |-> json_dumps(EventDoc(ids[j], TRUE))]]
            page == [j \in 1..Len(pids) |-> EventDoc(pids[j], f[pids[j]])]
        IN  /\ buildbot_workers = <<>>
            /\ buildbot_builders = <<>>
            /\ tbl = [x \in KindSet |-> IF x = k THEN table ELSE <<>>]
            /\ txw = <<>>
            /\ txe = <<>>
            /\ pc = "execute"
            /\ stage = k
            /\ runs = 1
            /\ exit = "none"
            /\ err = "none"
            /\ clock = 2
            /\ step = Step
            /\ start_id = 0
            /\ stop_id = next_stop_id(0, Step)
            /\ results = page
            /\ hkind = k
            /\ cursor0 = 0
            /\ tbl0 = <<>>
            /\ windows = <<<<0, next_stop_id(0, Step)>>>>
            /\ pages = <<page>>
            /\ commits = <<>>
            /\ fin = NoFin
            /\ prev = [x \in KindSet |-> NoPrev]
            /\ replay = [x \in KindSet |-> FALSE]
            /\ curSame = TRUE
            /\ log = LogAt(k)
            /\ remote = [x \in KindSet |-> [i \in Ids |-> "absent"]]
            /\ workersApi = [i \in SnapIds |-> 0]
            /\ buildersApi = [i \in SnapIds |-> 0]
            /\ changes = 0

NextInsert ==
    \/ Execute
    \/ CommitPage

SpecInsert == InitInsert /\ [][NextInsert]_vars

\* ------------------------------------------- the build-requests scenario
\* The master holds build requests 1..10, all complete but 6, and nothing
\* else; the window size is 4.
ScenarioRemote ==
    [k \in KindSet |->
        [i \in 1..10 |->
            IF k # "buildrequests" THEN "absent"
            ELSE IF i = 6 THEN "incomplete" ELSE "complete"]]

InitScenario ==
    /\ InitProcess
    /\ step = 4
    /\ remote = ScenarioRemote

NextScenario ==
    \/ Main
    \/ update_workers
    \/ update_builders
    \/ SnapshotFetchError
    \/ SnapshotCommit
    \/ EventStart
    \/ RequestPage
    \/ RequestError
    \/ Execute
    \/ CommitPage
    \/ Crash

SpecScenario == InitScenario /\ [][NextScenario]_vars

\* ------------------------------------------- a master that does not change
\* The master holds, for each of the three kinds, the same records: any
\* choice of absent, incomplete or complete for the ids 1..MaxId.  It does
\* not change, and the process keeps running: a request that is due, a loop
\* body and a commit are eventually executed.
InitFetch ==
    /\ InitProcess
    /\ step = Step
    /\ \E f \in [Ids -> {"absent", "incomplete", "complete"}] :
          remote = [k \in KindSet |-> f]

SpecFetch ==
    /\ InitFetch
    /\ [][NextScenario]_vars
    /\ WF_vars(RequestPage \/ Execute \/ CommitPage)

\* ------------------------------------- a master whose records get complete
\* The master of InitFetch, whose incomplete records may reach their final
\* state while the script runs or between two invocations.
NextMiss ==
    \/ \E k \in KindSet, i \in Ids : RemoteComplete(k, i)
    \/ Main
    \/ update_workers
    \/ update_builders
    \/ SnapshotFetchError
    \/ SnapshotCommit
    \/ EventStart
    \/ RequestPage
    \/ RequestError
    \/ Execute
    \/ CommitPage
    \/ Crash

SpecMiss == InitFetch /\ [][NextMiss]_vars

\* --------------------------------------------- the snapshot stages alone
\* The master lists two workers and two builders, with any attributes, and
\* holds no builds, buildsets or buildrequests.
SnapshotIds == {1, 2}

InitSnapshot ==
    /\ InitLocal
    /\ workersApi \in [SnapshotIds -> Vals]
    /\ buildersApi \in [SnapshotIds -> Vals]
    /\ step = Step
    /\ remote = [k \in KindSet |-> [i \in Ids |-> "absent"]]

NextSnapshot ==
    \/ \E i \in SnapshotIds : RemoteWorkerChange(i)
    \/ \E i \in SnapshotIds : RemoteBuilderChange(i)
    \/ Main
    \/ update_workers
    \/ update_builders
    \/ SnapshotFetchError
    \/ SnapshotCommit
    \/ EventStart
    \/ RequestPage
    \/ Crash

SpecSnapshot == InitSnapshot /\ [][NextSnapshot]_vars

TypeOK ==
    /\ pc \in {"idle", "update", "commit", "start", "request", "execute",
               "commit_page"}
    /\ stage \in {"none", "workers", "builders"} \cup KindSet
    /\ (pc = "idle") = (stage = "none")
    /\ err \in {"none", "fetch", "crash", "SyntaxError", "UniqueViolation"}

\* ------------------------------------------------------------- claims
\* The complete records of a page, as the rows they are stored as.
RowsOf(page) ==
    LET final == SelectSeq(page, LAMBDA r : r.complete)
    IN  [j \in 1..Len(final) |->
            [id |-> final[j].id, data |-> json_dumps(final[j])]]

RECURSIVE RowsOfPages(_, _)
RowsOfPages(ps, n) ==
    IF n = 0 THEN <<>> ELSE RowsOfPages(ps, n - 1) \o RowsOf(ps[n])

\* The records the pages of the stage run returned.
Records(ps) == UNION {{ps[j][m] : m \in 1..Len(ps[j])} : j \in 1..Len(ps)}
InRun == stage \in KindSet /\ pc \in {"request", "execute", "commit_page"}

\* C1: a second run of an event sync against an unchanged master leaves the
\* table as the first run left it and raises no error of its own (an error
\* status of the master aside).
C1_IdempotentReplay ==
    /\ (InRun /\ replay[stage]) => tbl[stage] = prev[stage].rows /\ txe = <<>>
    /\ (fin.replayed /\ fin.status = "failed") => err = "fetch"

\* The replay of C1 restricted to the two kinds whose loop breaks on an
\* empty batch; it holds of them.
C1_ReplayOfBreakingKinds ==
    /\ (InRun /\ replay[stage] /\ breaks_on_empty(stage))
          => tbl[stage] = prev[stage].rows /\ txe = <<>>
    /\ (fin.replayed /\ fin.status = "failed" /\ breaks_on_empty(fin.kind))
          => err = "fetch"

\* The stored snapshots of one entity: the rows, of either snapshot table,
\* whose document carries the entity's id under its kind's key.
SnapshotRows(key, i) ==
    LET rows == buildbot_workers \o txw
    IN  {j \in 1..Len(rows) :
            LET doc == jsonb_load(rows[j].data)
            IN  key \in DOMAIN doc /\ doc[key] = i}

LatestSnapshot(key, i) ==
    LET rows == buildbot_workers \o txw
        mine == SnapshotRows(key, i)
    IN  IF mine = {} THEN None
        ELSE jsonb_load(rows[CHOOSE j \in mine : \A m \in mine :
                               rows[m].timestamp <= rows[j].timestamp].data)

\* C2: a snapshot pass writes a row for an entity iff none is stored for it
\* or the fetched document differs from the entity's latest stored one.
C2_SnapshotMinimality ==
    [][(pc = "update" /\ pc' = "commit") =>
         \A i \in SnapIds :
            LET key == IF stage = "workers" THEN "workerid" ELSE "builderid"
                doc == IF stage = "workers" THEN WorkerDoc(i, workersApi[i])
                       ELSE BuilderDoc(i, buildersApi[i])
                old == LatestSnapshot(key, i)
                written == \E j \in 1..Len(txw') :
                              jsonb_load(txw'[j].data) = doc
            IN  written <=> (old = None \/ old # doc)]_vars

\* C3: a builds page that is not empty and holds no complete build does not
\* end the sync: unless the process is killed there, the next window is
\* requested.
C3_BuildsContinue ==
    [][(stage = "builds" /\ pc = "execute" /\ RowsOf(results) = <<>>
          /\ exit' # "killed")
         => (stage' = "builds" /\ pc' = "request")]_vars

\* The highest id a page of the stage run returned.
Highest == SetMax({r.id : r \in Records(pages)})
SeenComplete == {r.id : r \in {x \in Records(pages) : x.complete}}
SeenIncomplete == {r.id : r \in {x \in Records(pages) : ~x.complete}}

\* C5: after an event stage run that ended without error, every id above the
\* starting cursor and up to the highest id returned, that was complete in
\* its page, has exactly one row; an id of the range without a row was not
\* seen complete.
C5_CompleteRowsStored ==
    fin.status = "ok" =>
        \A i \in (cursor0 + 1)..Highest :
            /\ i \in SeenComplete => Count(tbl[fin.kind], i) = 1
            /\ Count(tbl[fin.kind], i) = 0 => i \notin SeenComplete

C5_Witness ==
    /\ fin.status = "ok"
    /\ \E i \in SeenComplete, j \in SeenIncomplete :
          /\ cursor0 < i /\ i <= Highest /\ j <= Highest
          /\ Count(tbl[fin.kind], i) = 1
          /\ Count(tbl[fin.kind], j) = 0

\* C6: the maximum committed id of each event table never decreases.
C6_MonotonicCursor ==
    [][\A k \in KindSet :
          SetMax(IdsOf(tbl[k])) <= SetMax(IdsOf(tbl'[k]))]_vars

\* A second run failed midway on a table that already had rows.
C6_Witness ==
    /\ runs = 2
    /\ fin.status = "failed"
    /\ prev[fin.kind].cursor0 > 0
    /\ SetMax(IdsOf(tbl[fin.kind])) >= prev[fin.kind].cursor0

\* C7: the k-th request of a stage run (k = 0, 1, ...) asks for the ids in
\* (c + k*step, c + (k+1)*step], c the maximum id committed for the kind when
\* the run started.
C7_Windows ==
    hkind # "none" =>
        \A j \in 1..Len(windows) :
            windows[j] = <<cursor0 + (j - 1) * step, cursor0 + j * step>>

\* Several requests of one run, from a cursor that is not 0, after a page
\* that was not full.
C7_Witness ==
    /\ hkind # "none"
    /\ cursor0 > 0
    /\ Len(windows) >= 2
    /\ \E j \in 1..Len(pages) : Len(pages[j]) < step

\* C8: every stored row was complete when fetched, and a record that was not
\* complete in its page gets no row in that run.
C8_CompletenessGate ==
    /\ \A k \in KindSet : \A j \in 1..Len(tbl[k]) :
          jsonb_load(tbl[k][j].data).complete
    /\ hkind # "none" =>
          \A i \in SeenIncomplete \ SeenComplete :
              i \notin IdsOf(tbl[hkind] \o txe) \ IdsOf(tbl0)

C8_Witness ==
    /\ hkind # "none"
    /\ Len(commits) >= 1
    /\ \E j \in 1..Len(pages) :
          \E a, b \in 1..Len(pages[j]) :
              pages[j][a].complete /\ ~pages[j][b].complete

\* C10: whenever a stage run may be interrupted, and after it was, the table
\* holds what it held before the run and the complete records of the pages
\* committed, each page wholly; the run after an interrupted one starts from
\* the maximum of the committed ids.
C10_CommitPerPage ==
    /\ hkind # "none" =>
          tbl[hkind] = tbl0 \o RowsOfPages(pages, Len(commits))
    /\ (InRun /\ windows = <<>> /\ prev[stage].status \in {"failed", "killed"}
          /\ prev[stage].ncommits > 0)
       => /\ start_id = SetMax(IdsOf(tbl[stage]))
          /\ start_id > prev[stage].cursor0

\* A run starts after one that was interrupted with two pages committed.
C10_Witness ==
    /\ InRun /\ windows = <<>>
    /\ prev[stage].status \in {"failed", "killed"}
    /\ prev[stage].ncommits = 2
    /\ Len(tbl[stage]) = 2

\* C4: an insert whose batch holds an id the table already has raises no
\* error: the stored rows stay as they are and the other ids of the batch
\* are inserted.
C4_DuplicateTolerance ==
    [][(pc = "execute" /\ IdsOf(RowsOf(results)) \cap IdsOf(tbl[stage]) # {})
         => /\ pc' = "commit_page"
            /\ err' = "none"
            /\ tbl' = tbl
            /\ IdsOf(txe') = IdsOf(RowsOf(results)) \ IdsOf(tbl[stage])]_vars

\* C9: from an empty table, the build-requests run of the scenario asks for
\* (0,4], (4,8], (8,12], (12,16] in that order, commits {1,2,3,4}, {5,7,8},
\* {9,10}, ends at the empty fourth page and leaves the ids 1..10 without 6.
ScenarioWindows == <<<<0, 4>>, <<4, 8>>, <<8, 12>>, <<12, 16>>>>
ScenarioCommits == <<{1, 2, 3, 4}, {5, 7, 8}, {9, 10}>>
IsPrefix(a, b) == Len(a) <= Len(b) /\ \A j \in 1..Len(a) : a[j] = b[j]

C9_Scenario ==
    (hkind = "buildrequests" /\ tbl0 = <<>>) =>
        /\ IsPrefix(windows, ScenarioWindows)
        /\ IsPrefix(commits, ScenarioCommits)
        /\ fin.status = "ok" =>
              /\ windows = ScenarioWindows
              /\ commits = ScenarioCommits
              /\ Len(pages) = 3
              /\ IdsOf(tbl["buildrequests"]) = {1, 2, 3, 4, 5, 7, 8, 9, 10}
              /\ Len(tbl["buildrequests"]) = 9

C9_Witness ==
    /\ hkind = "buildrequests" /\ tbl0 = <<>>
    /\ fin.kind = "buildrequests" /\ fin.status = "ok"
    /\ Len(windows) = 4
    /\ exit = "0"

\* What a failing stage ends the process with.
StageErrors == {"fetch", "SyntaxError", "UniqueViolation"}
LogSet == {log[j] : j \in 1..Len(log)}

\* C11: the step in which a stage fails changes no table (the rows committed
\* by the stages before it and by the earlier pages of the failing stage
\* stay as committed) and ends the process with exit status 1; the process
\* ends with exit status 0 exactly when all five stages have returned.
C11_FailureKeepsCommitted ==
    [][/\ (err = "none" /\ err' \in StageErrors)
           => /\ dbVars' = dbVars
              /\ exit' = "1"
              /\ pc' = "idle"
              /\ stage \in KindSet
                    => tbl'[stage] = tbl0 \o RowsOfPages(pages, Len(commits))
       /\ (exit' = "0") <=> (log' = StageLog)
       /\ (exit' = "0") => (err' = "none" /\ pc' = "idle")]_vars

\* A stage failed after the snapshot stages and a page of its own were
\* committed.
C11_Witness ==
    /\ exit = "1"
    /\ err \in StageErrors
    /\ fin.status = "failed"
    /\ Len(commits) >= 1
    /\ tbl[fin.kind] = tbl0 \o RowsOfPages(pages, Len(commits))
    /\ Len(tbl[fin.kind]) > Len(tbl0)
    /\ buildbot_workers # <<>>

\* C12: a stage that fails does not keep the stages after it from running:
\* an invocation that ended with a stage failure has called all five
\* stages.
C12_StageIsolation ==
    (exit = "1" /\ err \in StageErrors) =>
        \A j \in 1..Len(StageSeq) : <<"start", StageSeq[j]>> \in LogSet

\* C13: the calls of an invocation and their returns follow the order
\* workers, builders, builds, buildsets, buildrequests: each stage is called
\* after the one before it returned, and at most once.
C13_StageOrder ==
    /\ IsPrefix(log, StageLog)
    /\ stage # "none" => log[Len(log)] = <<"start", stage>>
    /\ (stage = "none" /\ log # <<>>) =>
          \/ log[Len(log)][1] = "start" /\ exit \in {"1", "killed"}
          \/ log = StageLog

\* A second invocation ran all five stages to their end.
C13_Witness ==
    /\ runs = 2
    /\ log = StageLog
    /\ exit = "0"

\* The ids of the records of a page.
PageIds(page) == {page[j].id : j \in 1..Len(page)}

\* What the master answers to the j-th request of the stage run.
Answer(j) == rest_response(hkind, windows[j][1], windows[j][2])

\* C14: the pages of a stage run are the answers to its requests, none of
\* them empty and no record in two of them; a request answered by an empty
\* page is the last one of the run, which ends there without error; after
\* the run ended no request is made and no page yielded; and every stage run
\* ends.
C14_FetcherTermination ==
    /\ [](hkind # "none" =>
            /\ Len(pages) <= Len(windows) /\ Len(windows) <= Len(pages) + 1
            /\ \A j \in 1..Len(pages) : pages[j] # <<>> /\ pages[j] = Answer(j)
            /\ \A a, b \in 1..Len(pages) :
                  a # b => PageIds(pages[a]) \cap PageIds(pages[b]) = {}
            /\ \A j \in 1..Len(windows) :
                  Answer(j) = <<>> =>
                      /\ j = Len(windows) /\ j = Len(pages) + 1
                      /\ fin.status \in {"ok", "failed"}
            /\ (Len(windows) = Len(pages) + 1 /\ fin.status = "ok")
                  => Answer(Len(windows)) = <<>>)
    /\ [][/\ fin.status # "none"
              => \/ windows' = windows /\ pages' = pages
                 \/ windows' = <<>> /\ pages' = <<>>
          /\ (InRun /\ pc = "request" /\ err' = "none"
                /\ rest_response(stage, start_id, start_id + step) = <<>>)
              => /\ fin'.status = "ok"
                 /\ pages' = pages
                 /\ pc' \in {"start", "idle"}]_vars
    /\ (InRun ~> ~InRun)

\* A stage run was answered two pages and then the empty one.
C14_Witness ==
    /\ fin.status = "ok"
    /\ Len(pages) = 2
    /\ Len(windows) = 3
    /\ Answer(3) = <<>>

\* C15: in the buildsets and the buildrequests sync, the loop body of a page
\* without a complete record ends the stage run without error: nothing is
\* inserted or committed, no window is requested after it, and the table
\* holds the rows of the pages before it and no others.
C15_BreakOnEmptyBatch ==
    [][(pc = "execute" /\ stage \in {"buildsets", "buildrequests"}
          /\ RowsOf(results) = <<>>)
         => /\ err' = "none"
            /\ exit' \in {"none", "0"}
            /\ fin'.kind = stage /\ fin'.status = "ok"
            /\ pc' \in {"start", "idle"}
            /\ dbVars' = dbVars
            /\ txe' = <<>>
            /\ commits' = commits
            /\ windows' = windows
            /\ pages' = pages
            /\ Len(commits) = Len(pages) - 1
            /\ tbl'[stage] = tbl0 \o RowsOfPages(pages, Len(pages) - 1)]_vars

\* A stage run of one of the two kinds stopped at a page without a complete
\* record while the master held a complete record above that page's window.
C15_Witness ==
    /\ fin.kind \in {"buildsets", "buildrequests"}
    /\ fin.status = "ok"
    /\ Len(windows) = Len(pages)
    /\ Len(pages) >= 1
    /\ RowsOf(pages[Len(pages)]) = <<>>
    /\ \E i \in Ids :
          /\ i > windows[Len(windows)][2]
          /\ remote[fin.kind][i] = "complete"
          /\ i \notin IdsOf(tbl[fin.kind])

\* C16: every id a step stores (or executes an insert of) is above the
\* maximum id committed for its kind, and every request asks for ids above
\* that maximum only: a record at or below it that has no row is never
\* requested or stored again.
C16_PermanentMiss ==
    [][\A k \in KindSet :
          LET m == SetMax(IdsOf(tbl[k]))
          IN  /\ \A i \in IdsOf(tbl'[k]) \ IdsOf(tbl[k]) : i > m
              /\ (stage' = k /\ pc' = "commit_page")
                    => \A i \in IdsOf(txe') : i > m
              /\ (stage = k /\ windows' # windows /\ windows' # <<>>)
                    => windows'[Len(windows')][1] >= m]_vars

\* A record got complete after a higher id of its kind was committed; a
\* stage run of the kind that started afterwards ended without error and
\* the record has no row.
C16_Witness ==
    \E i \in Ids :
        /\ fin.kind = hkind /\ fin.status = "ok"
        /\ curSame
        /\ cursor0 > i
        /\ Len(windows) >= 1
        /\ remote[hkind][i] = "complete"
        /\ i \notin IdsOf(tbl[hkind])

\* C17: a range request answered with a status other than 200 yields no
\* page and is made once; nothing is inserted or committed for it, the stage
\* run fails and the process ends, so that no window is requested after it.
C17_FetchError ==
    [][/\ (InRun /\ pc = "request" /\ err' = "fetch")
           => /\ Len(windows') = Len(windows) + 1
              /\ pages' = pages
              /\ results' = <<>>
              /\ dbVars' = dbVars
              /\ txe' = <<>>
              /\ commits' = commits
              /\ fin'.kind = stage /\ fin'.status = "failed"
              /\ exit' = "1"
              /\ pc' = "idle"
       /\ (err = "fetch" /\ fin.status = "failed")
           => \/ windows' = windows /\ pages' = pages /\ commits' = commits
              \/ windows' = <<>> /\ runs' = runs + 1]_vars

\* The third request of a stage run failed after two pages were committed.
C17_Witness ==
    /\ err = "fetch"
    /\ fin.status = "failed"
    /\ Len(windows) = 3
    /\ Len(pages) = 2
    /\ Len(commits) = 2
    /\ exit = "1"

\* C18: no event table ever holds two rows of one id, and a step leaves
\* every committed row where and as it is: it can only append rows.
C18_AtMostOnce ==
    [][\A k \in KindSet :
          /\ IsPrefix(tbl[k], tbl'[k])
          /\ \A i \in IdsOf(tbl[k]) : Count(tbl[k], i) = 1
          /\ \A i \in IdsOf(tbl'[k]) : Count(tbl'[k], i) = 1]_vars

\* A page was committed to a table that held rows of other ids.
C18_Witness ==
    /\ pc = "request"
    /\ Len(commits) = 1
    /\ commits[1] # {}
    /\ IdsOf(tbl[stage]) \ commits[1] # {}
    /\ Len(tbl[stage]) >= 3

\* The rows of buildbot_workers that hold a builder document.
BuilderRows ==
    {j \in 1..Len(buildbot_workers) :
        "builderid" \in DOMAIN jsonb_load(buildbot_workers[j].data)}

ListingOf(s) ==
    IF s = "workers" THEN workers_listing(workersApi)
    ELSE builders_listing(buildersApi)

\* C20: a snapshot stage makes nothing durable before its commit: all the
\* rows it writes carry the one timestamp taken for the listing, every
\* entity of the listing has its document among the rows stored or written,
\* and one commit stores the rows and ends the stage; a stage that fails, or
\* a process that stops, before the commit leaves the table as it was.
C20_SnapshotCommit ==
    [][/\ (pc = "update" /\ pc' = "commit")
           => /\ dbVars' = dbVars
              /\ clock' = clock + 1
              /\ \A j \in 1..Len(txw') : txw'[j].timestamp = clock'
              /\ LET docs == ListingOf(stage)
                     rows == buildbot_workers \o txw'
                 IN  \A d \in 1..Len(docs) :
                        \E j \in 1..Len(rows) : jsonb_load(rows[j].data) = docs[d]
       /\ (pc \in {"update", "commit"} /\ exit' \in {"1", "killed"})
           => dbVars' = dbVars /\ txw' = <<>>
       /\ (buildbot_workers' # buildbot_workers)
           => /\ pc = "commit"
              /\ buildbot_workers' = buildbot_workers \o txw
              /\ txw' = <<>>
              /\ stage' = next_stage(stage)]_vars

\* One commit stored the snapshots of two workers, both with the timestamp
\* of their listing.
C20_Witness ==
    \E a, b \in 1..Len(buildbot_workers) :
        /\ a # b
        /\ a \notin BuilderRows /\ b \notin BuilderRows
        /\ buildbot_workers[a].worker_id # buildbot_workers[b].worker_id
        /\ buildbot_workers[a].timestamp = buildbot_workers[b].timestamp

====
